---- MODULE Spec2Model ----
(***************************************************************************)
(* Detection core of the Anti-Phishing Chrome extension: the feature       *)
(* extractor and explainer of src/src/model.ts, the classifier adapter     *)
(* (loadModel / predict) of the same file, and the scoring part of         *)
(* checkUrl in the two revisions of background.ts kept in the repository   *)
(* (src/src/background.ts and src/unnamed/part_004), with the popup's risk *)
(* tier helpers.                                                           *)
(*                                                                         *)
(* JavaScript values are modelled as follows.                              *)
(*   string   a TLA+ string; the i-th character is SubSeq(s, i, i)         *)
(*   number   a record [n |-> numerator, d |-> denominator] in lowest      *)
(*            terms; d = 0 is NaN (n = 0), +Infinity (n = 1) or            *)
(*            -Infinity (n = -1)                                           *)
(*   a call   a completion record: [type |-> "return", value |-> v] or     *)
(*            [type |-> "throw", value |-> message]                        *)
(***************************************************************************)
EXTENDS FiniteSets, Integers, Sequences, TLC

VARIABLES
  \* ---- feature extractor / explainer (SpecFeatures)
  urlData,              \* the observation handed to extractFeatures
  features,             \* completion of extractFeatures(urlData), or NotCalled
  explained,            \* the vector handed to getSignificantFeatures, or NotCalled
  significantFeatures,  \* completion of getSignificantFeatures, or NotCalled
  \* ---- classifier adapter (SpecLoad)
  model,                \* module variable `model`: "null" or the loaded object
  scaler,               \* module variable `scaler`: "null" or the parsed object
  pc,                   \* per caller: where the async call is suspended
  call,                 \* per caller: the exported function it called
  nFeatures,            \* per caller: length of the vector passed to predict
  outcome,              \* per caller: completion of its call, or NotCalled
  loadAttempts,         \* number of tf.loadLayersModel fetches started
  loadsCompleted,       \* number of loadModel bodies that ran to their end
  loadsFailed,          \* number of them that ended by rethrowing an error
  numTensors,           \* tf.memory().numTensors, less the tensors of the weights
  \* ---- normalizer (SpecScale)
  scalerJson,           \* the value held by `scaler` when scaleFeatures runs
  scaleArg,             \* the vector handed to scaleFeatures
  scaledFeatures,       \* completion of scaleFeatures(scaleArg), or NotCalled
  \* ---- one scan and its display (Spec)
  build,                \* the revision of background.ts that runs checkUrl
  scanUrl,              \* checkUrl's argument `url`
  tabId,                \* checkUrl's argument `tabId`
  scanPc,               \* where checkUrl is suspended
  mlScore,              \* the value `await predict(features)` gave
  isUnsafe,             \* the value `await checkUrlWithSafeBrowsing(url)` gave
  result,               \* completion of checkUrl: a CheckResult's data, or null
  caughtError,          \* message of the error checkUrl's catch block got, or ""
  warning,              \* the interstitial in the tab: "none", "overlay", "shown"
  popup,                \* the revision of the popup that shows the result
  popupScore,           \* the popup's `riskScore` state
  riskLevel,            \* the tier text the popup renders for it
  \* ---- what earlier calls returned (SpecRepeat, SpecTwoScans)
  extracted,            \* per observation: its first vector and its number of calls
  earlier,              \* the scores of the scan before this one, or NoScan
  \* ---- the service worker's listeners and handlers (SpecEvents)
  autoScan,             \* chrome.storage.sync: the autoScan setting
  latestScanResult,     \* chrome.storage.sync: the stored result, or Null
  warnedUrls,           \* chrome.storage.local: the keys of warnedUrls
  pendingDecisions,     \* per URL: the tab of its entry in the Map, if any
  urlsBeingChecked,     \* the Set of part_004 line 394
  overlay,              \* per tab: the URL whose warning page covers it, if any
  scans,                \* one record per event handled, in order of arrival
  completed,            \* the last event whose checkUrl gave a result, or 0
  continued             \* the URLs whose "Continue Anyway" was handled

featureVars == <<urlData, features, explained, significantFeatures>>
loadVars    == <<model, scaler, pc, call, nFeatures, outcome, loadAttempts, loadsCompleted,
                 loadsFailed, numTensors>>
scanVars    == <<build, scanUrl, tabId, scanPc, mlScore, isUnsafe, result, caughtError, warning,
                 popup, popupScore, riskLevel>>
scaleVars   == <<scalerJson, scaleArg, scaledFeatures>>
historyVars == <<extracted, earlier>>
nonEventVars == <<featureVars, loadVars, scanVars, scaleVars, historyVars>>
eventVars   == <<autoScan, latestScanResult, warnedUrls, pendingDecisions, urlsBeingChecked,
                 overlay, scans, completed, continued>>
vars        == <<nonEventVars, eventVars>>

NotCalled == [type |-> "none"]
Return(v) == [type |-> "return", value |-> v]
Throw(m)  == [type |-> "throw", value |-> m]

\* JavaScript's null
Null == [type |-> "null"]

-----------------------------------------------------------------------------
(* Numbers *)

RECURSIVE GCD(_, _)
GCD(a, b) == IF b = 0 THEN a ELSE GCD(b, a % b)

Abs(k) == IF k < 0 THEN -k ELSE k

NaN      == [n |-> 0, d |-> 0]
Infinity == [n |-> 1, d |-> 0]
Num(k)   == [n |-> k, d |-> 1]

\* Div with numerator and denominator exchanged
DivInverted(a, b) ==
  IF a = 0 THEN (IF b = 0 THEN NaN ELSE Infinity)
  ELSE LET g == GCD(a, b) IN [n |-> b \div g, d |-> a \div g]

\* a / b for integers a >= 0, b >= 0, as JavaScript's `/` gives it
Div(a, b) ==
  IF b = 0 THEN (IF a = 0 THEN NaN ELSE Infinity)
  ELSE LET g == GCD(a, b) IN [n |-> a \div g, d |-> b \div g]

IsNaN(x)    == x.d = 0 /\ x.n = 0
IsFinite(x) == x.d > 0

\* x > y; every comparison with NaN is false
Gt(x, y) ==
  /\ ~IsNaN(x) /\ ~IsNaN(y)
  /\ IF x.d = 0 THEN y.d # 0
     ELSE IF y.d = 0 THEN FALSE
     ELSE x.n * y.d > y.n * x.d

Ge(x, y) == ~IsNaN(x) /\ ~IsNaN(y) /\ (x = y \/ Gt(x, y))
Lt(x, y) == Gt(y, x)
Le(x, y) == Ge(y, x)

\* x === k for an integer literal k
StrictEq(x, k) == x = Num(k)

\* x * k and x + k for an integer k
Times(x, k) == IF x.d = 0 THEN x ELSE Div(x.n * k, x.d)
Plus(x, k)  == IF x.d = 0 THEN x ELSE [n |-> x.n + k * x.d, d |-> x.d]

\* Math.round(x) for x >= 0: halves go up; NaN stays NaN
MathRound(x) == IF x.d = 0 THEN x ELSE Num((2 * x.n + x.d) \div (2 * x.d))

\* Math.min(k, x) for an integer k: NaN if x is NaN
MathMinOf(k, x) == IF IsNaN(x) THEN NaN ELSE IF Gt(x, Num(k)) THEN Num(k) ELSE x

Sign(k) == IF k > 0 THEN 1 ELSE IF k < 0 THEN -1 ELSE 0

\* the number n / d for integers of either sign, in lowest terms
Ratio(n, d) ==
  IF d = 0 THEN [n |-> Sign(n), d |-> 0]
  ELSE LET g == GCD(Abs(n), Abs(d))
       IN [n |-> (Sign(d) * n) \div g, d |-> Abs(d) \div g]

\* x - y, x + y, x * y and x / y on numbers, as JavaScript gives them
\* (zero is unsigned here: x / 0 takes the sign of x)
Minus(x, y) ==
  IF x.d = 0 /\ y.d = 0
  THEN (IF IsNaN(x) \/ IsNaN(y) \/ x = y THEN NaN ELSE x)
  ELSE Ratio(x.n * y.d - y.n * x.d, x.d * y.d)

Add(x, y) ==
  IF x.d = 0 /\ y.d = 0
  THEN (IF x = y THEN x ELSE NaN)
  ELSE Ratio(x.n * y.d + y.n * x.d, x.d * y.d)

Mul(x, y) == Ratio(x.n * y.n, x.d * y.d)

Quot(x, y) ==
  LET r == Ratio(y.d, y.n)   \* 1 / y
  IN Ratio(x.n * r.n, x.d * r.d)

-----------------------------------------------------------------------------
(* Strings *)

Char(s, i) == SubSeq(s, i, i)

Digits       == {"0", "1", "2", "3", "4", "5", "6", "7", "8", "9"}
UpperLetters == "ABCDEFGHIJKLMNOPQRSTUVWXYZ"
LowerLetters == "abcdefghijklmnopqrstuvwxyz"
WhiteSpace   == {" ", "\t", "\n", "\r"}

LowerChar(c) ==
  IF \E i \in 1..Len(UpperLetters) : Char(UpperLetters, i) = c
  THEN Char(LowerLetters, CHOOSE i \in 1..Len(UpperLetters) : Char(UpperLetters, i) = c)
  ELSE c

RECURSIVE toLowerCase(_)
toLowerCase(s) ==
  IF s = "" THEN "" ELSE LowerChar(Char(s, 1)) \o toLowerCase(Tail(s))

RECURSIVE trimStart(_)
trimStart(s) ==
  IF s # "" /\ Char(s, 1) \in WhiteSpace THEN trimStart(Tail(s)) ELSE s

RECURSIVE trimEnd(_)
trimEnd(s) ==
  IF s # "" /\ Char(s, Len(s)) \in WhiteSpace
  THEN trimEnd(SubSeq(s, 1, Len(s) - 1)) ELSE s

trim(s) == trimEnd(trimStart(s))

\* s.includes(sub)
includes(s, sub) ==
  \/ sub = ""
  \/ \E i \in 1..(Len(s) - Len(sub) + 1) : SubSeq(s, i, i + Len(sub) - 1) = sub

startsWith(s, prefix) ==
  Len(s) >= Len(prefix) /\ SubSeq(s, 1, Len(prefix)) = prefix

\* (s.match(/c/g) || []).length for a set C of single characters
CountChars(s, C) == Cardinality({i \in 1..Len(s) : Char(s, i) \in C})

\* (s.match(/sub/g) || []).length for a literal that cannot overlap itself
CountMatches(s, sub) ==
  Cardinality({i \in 1..(Len(s) - Len(sub) + 1) : SubSeq(s, i, i + Len(sub) - 1) = sub})

\* s.split(sep) for a separator that matches one character of the set D
RECURSIVE SplitFrom(_, _, _, _)
SplitFrom(s, D, i, word) ==
  IF i > Len(s) THEN <<word>>
  ELSE IF Char(s, i) \in D THEN <<word>> \o SplitFrom(s, D, i + 1, "")
  ELSE SplitFrom(s, D, i + 1, word \o Char(s, i))

split(s, D) == SplitFrom(s, D, 1, "")

\* Math.min(...xs) and Math.max(...xs) over integer lengths; the empty
\* spread gives +Infinity and -Infinity, which no split ever produces
MathMin(xs) ==
  IF xs = <<>> THEN Infinity
  ELSE Num(CHOOSE m \in {xs[i] : i \in DOMAIN xs} : \A i \in DOMAIN xs : m <= xs[i])

MathMax(xs) ==
  IF xs = <<>> THEN [n |-> -1, d |-> 0]
  ELSE Num(CHOOSE m \in {xs[i] : i \in DOMAIN xs} : \A i \in DOMAIN xs : m >= xs[i])

Lengths(words) == [i \in DOMAIN words |-> Len(words[i])]

AllIn(s, C) == \A i \in 1..Len(s) : Char(s, i) \in C

\* Number(s) is not NaN: the StringNumericLiteral grammar of ECMAScript for
\* strings without a "." (the labels of hostname.split('.'))
IsDecimalDigits(s) == s # "" /\ AllIn(s, Digits)

IsExponentPart(s) ==
  /\ Len(s) >= 2
  /\ Char(s, 1) \in {"e", "E"}
  /\ LET rest == Tail(s) IN
       \/ IsDecimalDigits(rest)
       \/ Char(rest, 1) \in {"+", "-"} /\ IsDecimalDigits(Tail(rest))

IsUnsignedDecimal(s) ==
  \/ s = "Infinity"
  \/ IsDecimalDigits(s)
  \/ \E k \in 1..(Len(s) - 1) :
        IsDecimalDigits(SubSeq(s, 1, k)) /\ IsExponentPart(SubSeq(s, k + 1, Len(s)))

IsNonDecimalInteger(s) ==
  /\ Len(s) >= 3
  /\ Char(s, 1) = "0"
  /\ LET body == SubSeq(s, 3, Len(s)) IN
       \/ Char(s, 2) \in {"x", "X"}
            /\ AllIn(body, Digits \cup {"a", "b", "c", "d", "e", "f", "A", "B", "C", "D", "E", "F"})
       \/ Char(s, 2) \in {"b", "B"} /\ AllIn(body, {"0", "1"})
       \/ Char(s, 2) \in {"o", "O"} /\ AllIn(body, {"0", "1", "2", "3", "4", "5", "6", "7"})

\* Number(s) is NaN unless s is a run of decimal digits
NumberIsNaNDigitsOnly(s) == ~IsDecimalDigits(s)

NumberIsNaN(s) ==
  LET t == trim(s) IN
    ~ \/ t = ""
      \/ IsUnsignedDecimal(t)
      \/ Len(t) >= 2 /\ Char(t, 1) \in {"+", "-"} /\ IsUnsignedDecimal(Tail(t))
      \/ IsNonDecimalInteger(t)

-----------------------------------------------------------------------------
(* Feature extractor and explainer (src/src/model.ts) *)

featureNames ==
  << "length_url", "length_hostname", "ip", "nb_dots", "nb_qm", "nb_eq", "nb_slash",
     "nb_www", "ratio_digits_url", "ratio_digits_host", "tld_in_subdomain",
     "prefix_suffix", "shortest_word_host", "longest_words_raw", "longest_word_path",
     "phish_hints", "nb_hyperlinks", "ratio_intHyperlinks", "empty_title", "domain_in_title" >>

phishingKeywords ==
  <<"secure", "account", "webscr", "login", "ebayisapi", "signin", "banking", "confirm">>

WordDelimiters == {"/", "?", "=", "&", ".", "-"}

\* An optional value: <<v>> when it is defined, Undefined when it is not
Undefined  == <<>>
Defined(v) == <<v>>

\* TitleOf without the `= ''` default
TitleOfNoDefault(obs) ==
  IF "title" \in DOMAIN obs THEN Defined(obs.title) ELSE Undefined

\* `const { ..., title = '', hyperlinks = [] } = urlData`: a property the
\* object does not carry takes its default
TitleOf(obs) ==
  IF "title" \in DOMAIN obs THEN Defined(obs.title) ELSE Defined("")

HyperlinksOf(obs) ==
  IF "hyperlinks" \in DOMAIN obs THEN Defined(obs.hyperlinks) ELSE Defined(<<>>)

\* lines 83-130: the named features of one observation
FeatureValues(url, hostname, path, title, hyperlinks) ==
  LET labels      == split(hostname, {"."})
      digits_url  == CountChars(url, Digits)
      digits_host == CountChars(hostname, Digits)
      tld         == labels[Len(labels)]
      subdomains  == SubSeq(labels, 1, Len(labels) - 2)
      host_words  == split(hostname, {".", "-"})
      nb_links    == Len(hyperlinks)
      lowerUrl    == toLowerCase(url)
      internalLinks == {i \in DOMAIN hyperlinks : includes(hyperlinks[i], hostname)}
  IN
  [ length_url      |-> Num(Len(url)),
    length_hostname |-> Num(Len(hostname)),
    ip |-> IF \A i \in DOMAIN labels : ~NumberIsNaN(labels[i]) THEN Num(1) ELSE Num(0),
    nb_dots  |-> Num(CountChars(url, {"."})),
    nb_qm    |-> Num(CountChars(url, {"?"})),
    nb_eq    |-> Num(CountChars(url, {"="})),
    nb_slash |-> Num(CountChars(url, {"/"})),
    nb_www   |-> Num(CountMatches(url, "www.")),
    ratio_digits_url  |-> Div(digits_url, Len(url)),
    ratio_digits_host |-> Div(digits_host, Len(hostname)),
    tld_in_subdomain |->
      IF \E i \in DOMAIN subdomains : toLowerCase(subdomains[i]) = toLowerCase(tld)
      THEN Num(1) ELSE Num(0),
    prefix_suffix      |-> IF includes(hostname, "-") THEN Num(1) ELSE Num(0),
    shortest_word_host |-> MathMin(Lengths(host_words)),
    longest_words_raw  |-> MathMax(Lengths(split(url, WordDelimiters))),
    longest_word_path  |-> MathMax(Lengths(split(path, WordDelimiters))),
    phish_hints |->
      Num(Cardinality({k \in DOMAIN phishingKeywords :
                         includes(lowerUrl, phishingKeywords[k])})),
    nb_hyperlinks |-> Num(nb_links),
    ratio_intHyperlinks |->
      IF nb_links > 0 THEN Div(Cardinality(internalLinks), nb_links) ELSE Num(0),
    empty_title     |-> IF Len(trim(title)) = 0 THEN Num(1) ELSE Num(0),
    domain_in_title |->
      IF includes(toLowerCase(title), toLowerCase(hostname)) THEN Num(1) ELSE Num(0) ]

\* FeatureVector with the nb_www slot left out
FeatureVectorShort(f) ==
  << f.length_url, f.length_hostname, f.ip, f.nb_dots, f.nb_qm, f.nb_eq, f.nb_slash,
     f.ratio_digits_url, f.ratio_digits_host, f.tld_in_subdomain, f.prefix_suffix,
     f.shortest_word_host, f.longest_words_raw, f.longest_word_path, f.phish_hints,
     f.nb_hyperlinks, f.ratio_intHyperlinks, f.empty_title, f.domain_in_title >>

\* lines 132-153: the returned array
FeatureVector(f) ==
  << f.length_url,
     f.length_hostname,
     f.ip,
     f.nb_dots,
     f.nb_qm,
     f.nb_eq,
     f.nb_slash,
     f.nb_www,
     f.ratio_digits_url,
     f.ratio_digits_host,
     f.tld_in_subdomain,
     f.prefix_suffix,
     f.shortest_word_host,
     f.longest_words_raw,
     f.longest_word_path,
     f.phish_hints,
     f.nb_hyperlinks,
     f.ratio_intHyperlinks,
     f.empty_title,
     f.domain_in_title >>

\* extractFeatures keeping a count between calls: the vector of the previous
\* call leaks into length_url
extractFeaturesStateful(obs) ==
  LET vec == FeatureVector(FeatureValues(obs.url, obs.hostname, obs.path,
                                         TitleOf(obs)[1], HyperlinksOf(obs)[1]))
  IN Return(IF features = NotCalled THEN vec
            ELSE [vec EXCEPT ![1] = Plus(vec[1], Len(features.value))])

extractFeatures(obs) ==
  LET titleOpt == TitleOf(obs)
      linksOpt == HyperlinksOf(obs)
  IN
  \* hyperlinks.length (line 124) and title.trim() (line 129) throw on undefined
  IF titleOpt = Undefined \/ linksOpt = Undefined
  THEN Throw("TypeError: Cannot read properties of undefined")
  ELSE Return(FeatureVector(
         FeatureValues(obs.url, obs.hostname, obs.path, titleOpt[1], linksOpt[1])))

BinaryNames == {"ip", "tld_in_subdomain", "prefix_suffix", "empty_title", "domain_in_title"}

\* IsSignificant with domain_in_title judged like the other binary flags
IsSignificantSamePolarity(featureName, value) ==
  \/ startsWith(featureName, "ratio_") /\ Gt(value, Div(3, 10))
  \/ featureName \in BinaryNames /\ StrictEq(value, 1)
  \/ /\ Gt(value, Num(0))
     /\ ~startsWith(featureName, "ratio_")
     /\ featureName \notin BinaryNames

\* the condition of the `if` inside features.forEach
IsSignificant(featureName, value) ==
  \/ startsWith(featureName, "ratio_") /\ Gt(value, Div(3, 10))
  \/ featureName = "ip" /\ StrictEq(value, 1)
  \/ featureName = "tld_in_subdomain" /\ StrictEq(value, 1)
  \/ featureName = "prefix_suffix" /\ StrictEq(value, 1)
  \/ featureName = "empty_title" /\ StrictEq(value, 1)
  \/ featureName = "domain_in_title" /\ StrictEq(value, 0)
  \/ /\ Gt(value, Num(0))
     /\ ~startsWith(featureName, "ratio_")
     /\ featureName \notin BinaryNames

\* the object built by forEach, as its [key, value] entries in insertion order
RECURSIVE SignificantFrom(_, _)
SignificantFrom(vec, index) ==
  IF index > Len(vec) THEN <<>>
  ELSE (IF IsSignificant(featureNames[index], vec[index])
        THEN << <<featureNames[index], vec[index]>> >> ELSE <<>>)
       \o SignificantFrom(vec, index + 1)

getSignificantFeatures(vec) ==
  IF Len(vec) > Len(featureNames)
  THEN Throw("TypeError: Cannot read properties of undefined (reading 'startsWith')")
  ELSE Return(SignificantFrom(vec, 1))

-----------------------------------------------------------------------------
(* Inputs of the feature extractor and explainer *)

MaxHostLen == 1
MaxLinks   == 2

RECURSIVE Strings(_, _)
Strings(C, maxLen) ==
  IF maxLen = 0 THEN {""}
  ELSE LET shorter == Strings(C, maxLen - 1)
       IN shorter \cup {s \o c : s \in shorter, c \in C}

RECURSIVE Lists(_, _)
Lists(S, maxLen) ==
  IF maxLen = 0 THEN {<<>>}
  ELSE LET shorter == Lists(S, maxLen - 1)
       IN shorter \cup {Append(l, x) : l \in shorter, x \in S}

HostChars == {"1", "a", ".", "-"}

Hostnames ==
  {"192.168.1.1", "example.com", "COM.evil-site.com", "123.abc.de", "1e5.0x1F"}
    \cup Strings(HostChars, MaxHostLen)

Urls ==
  {"", "http://192.168.1.1/login", "https://example.com",
   "https://COM.evil-site.com/www.a?x=1&y=22", "http://1234567.89/"}

Paths  == {"", "/login"}
Titles == {"", "  ", "Welcome to EXAMPLE.COM"}
Links  == {"https://example.com/a", "http://COM.evil-site.com/1"}

\* title and hyperlinks are optional properties of URLFeatures (lines 43-49)
Observations ==
  LET required == [url : Urls, hostname : Hostnames, path : Paths]
      withTitle(o, t) == [url |-> o.url, hostname |-> o.hostname, path |-> o.path,
                          title |-> t]
      withLinks(o, l) == [url |-> o.url, hostname |-> o.hostname, path |-> o.path,
                          hyperlinks |-> l]
      withBoth(o, t, l) == [url |-> o.url, hostname |-> o.hostname, path |-> o.path,
                            title |-> t, hyperlinks |-> l]
  IN required
       \cup {withTitle(o, t) : o \in required, t \in Titles}
       \cup {withLinks(o, l) : o \in required, l \in Lists(Links, MaxLinks)}
       \cup {withBoth(o, t, l) : o \in required, t \in Titles, l \in Lists(Links, MaxLinks)}

\* Vectors handed to getSignificantFeatures directly: all slots 0 but one
ProbeValues == {Num(0), Num(1), Num(2), Div(3, 10), Div(31, 100), Div(1, 2), NaN}

ProbeVectors ==
  {[i \in 1..Len(featureNames) |-> IF i = k THEN v ELSE Num(0)] :
     k \in 1..Len(featureNames), v \in ProbeValues}

NoObservation == [none |-> TRUE]

-----------------------------------------------------------------------------
(* The parts of the state a specification does not use stay as they are *)

IdleFeatures ==
  /\ urlData = NoObservation
  /\ features = NotCalled
  /\ explained = NotCalled
  /\ significantFeatures = NotCalled

IdleLoad ==
  /\ model = "null"
  /\ scaler = "null"
  /\ pc = <<>>
  /\ call = <<>>
  /\ nFeatures = <<>>
  /\ outcome = <<>>
  /\ loadAttempts = 0
  /\ loadsCompleted = 0
  /\ loadsFailed = 0
  /\ numTensors = 0

NoScan == [none |-> TRUE]

IdleHistory ==
  /\ extracted = <<>>
  /\ earlier = NoScan

\* the tabs of the browser
EventTabs == {1, 2}

\* the URLs the tabs visit
EventUrls == {"https://example.com/login", "http://192.168.1.1/"}

IdleEvents ==
  /\ autoScan = TRUE
  /\ latestScanResult = Null
  /\ warnedUrls = {}
  /\ pendingDecisions = [u \in EventUrls |-> Undefined]
  /\ urlsBeingChecked = {}
  /\ overlay = [t \in EventTabs |-> Undefined]
  /\ scans = <<>>
  /\ completed = 0
  /\ continued = {}

IdleScale ==
  /\ scalerJson = Null
  /\ scaleArg = <<>>
  /\ scaledFeatures = NotCalled

IdleScan ==
  /\ build = "none"
  /\ scanUrl = ""
  /\ tabId = 0
  /\ scanPc = "idle"
  /\ mlScore = NaN
  /\ isUnsafe = FALSE
  /\ result = NotCalled
  /\ caughtError = ""
  /\ warning = "none"
  /\ popup = "none"
  /\ popupScore = Num(0)
  /\ riskLevel = ""

-----------------------------------------------------------------------------
(* SpecFeatures: extractFeatures and getSignificantFeatures as called by   *)
(* checkUrl (background.ts lines 226-243), and getSignificantFeatures as   *)
(* an exported function called on a vector of the caller's choice          *)

InitFeatures ==
  /\ urlData \in Observations \cup {NoObservation}
  /\ features = NotCalled
  /\ explained = NotCalled
  /\ significantFeatures = NotCalled
  /\ IdleLoad
  /\ IdleScan
  /\ IdleScale
  /\ IdleEvents
  /\ IdleHistory

ExtractFeatures ==
  /\ urlData # NoObservation
  /\ features = NotCalled
  /\ features' = extractFeatures(urlData)
  /\ UNCHANGED <<urlData, explained, significantFeatures, loadVars, eventVars, scaleVars, historyVars, scanVars>>

GetSignificantFeatures ==
  /\ features.type = "return"
  /\ explained = NotCalled
  /\ explained' = Return(features.value)
  /\ significantFeatures' = getSignificantFeatures(features.value)
  /\ UNCHANGED <<urlData, features, loadVars, eventVars, scaleVars, historyVars, scanVars>>

ExplainVector ==
  /\ urlData = NoObservation
  /\ explained = NotCalled
  /\ \E vec \in ProbeVectors :
       /\ explained' = Return(vec)
       /\ significantFeatures' = getSignificantFeatures(vec)
  /\ UNCHANGED <<urlData, features, loadVars, eventVars, scaleVars, historyVars, scanVars>>

NextFeatures == ExtractFeatures \/ GetSignificantFeatures \/ ExplainVector

SpecFeatures == InitFeatures /\ [][NextFeatures]_vars

-----------------------------------------------------------------------------
(* Claims about the feature extractor and the explainer (SpecFeatures) *)

RatioSlots  == {9, 10, 18}
BinarySlots == {3, 11, 12, 19, 20}

Extracted == features.type = "return"

\* C3: for every observation, empty fields included, extractFeatures returns
\* exactly 20 slots, and slot i holds the feature named featureNames[i].
C3_TwentySlotsInCanonicalOrder ==
  Extracted =>
    /\ Len(features.value) = 20
    /\ LET f == FeatureValues(urlData.url, urlData.hostname, urlData.path,
                              TitleOf(urlData)[1], HyperlinksOf(urlData)[1])
       IN \A i \in 1..20 : features.value[i] = f[featureNames[i]]

C3_Witness ==
  /\ Extracted
  /\ urlData.url = "" /\ urlData.hostname = "" /\ urlData.path = ""
  /\ "hyperlinks" \in DOMAIN urlData /\ urlData.hyperlinks = <<>>

\* An observation is valid when its url and hostname are not empty (an empty
\* hostname is the malformed observation of the error taxonomy).
ValidObservation == urlData.url # "" /\ urlData.hostname # ""

\* C4: for every valid observation the three ratio slots are in [0,1] and the
\* five binary slots are 0 or 1.
C4_RatiosAndFlagsInRange ==
  (Extracted /\ ValidObservation) =>
    /\ \A i \in RatioSlots :
         Ge(features.value[i], Num(0)) /\ Le(features.value[i], Num(1))
    /\ \A i \in BinarySlots : features.value[i] \in {Num(0), Num(1)}

C4_Witness ==
  /\ Extracted /\ ValidObservation
  /\ features.value[18] = Div(1, 2)
  /\ Gt(features.value[9], Num(0))
  /\ features.value[11] = Num(1)

\* C5: whenever a ratio's denominator is zero (empty url, empty hostname, no
\* hyperlinks) extractFeatures emits 0 for that ratio, never NaN or Infinity.
C5_ZeroDenominatorGivesZero ==
  Extracted =>
    /\ (Len(urlData.url) = 0 => features.value[9] = Num(0))
    /\ (Len(urlData.hostname) = 0 => features.value[10] = Num(0))
    /\ (Len(HyperlinksOf(urlData)[1]) = 0 => features.value[18] = Num(0))

\* C6: extractFeatures never throws for an observation whose fields are
\* strings, also when they are empty or when title and hyperlinks are missing.
C6_ExtractNeverThrows ==
  (urlData # NoObservation /\ features # NotCalled) => features.type = "return"

C6_Witness ==
  /\ Extracted
  /\ urlData.url = "" /\ urlData.hostname = "" /\ urlData.path = ""
  /\ "title" \notin DOMAIN urlData
  /\ "hyperlinks" \notin DOMAIN urlData

\* The inclusion rule of the explainer, slot by slot
RuleHolds(name, value) ==
  IF name \in {"ratio_digits_url", "ratio_digits_host", "ratio_intHyperlinks"}
    THEN Gt(value, Div(3, 10))
  ELSE IF name \in {"ip", "tld_in_subdomain", "prefix_suffix", "empty_title"}
    THEN value = Num(1)
  ELSE IF name = "domain_in_title"
    THEN value = Num(0)
  ELSE Gt(value, Num(0))

IndexOfName(name) == CHOOSE i \in 1..Len(featureNames) : featureNames[i] = name

\* C8: getSignificantFeatures includes a slot, with its raw value, exactly
\* when its rule holds (ratio_* > 0.3; ip, tld_in_subdomain, prefix_suffix,
\* empty_title = 1; domain_in_title = 0; every other slot > 0), and the
\* included keys are feature names in canonical order.
C8_SignificantExactlyByRule ==
  significantFeatures.type = "return" =>
    LET vec == explained.value
        sig == significantFeatures.value
    IN /\ \A i \in 1..Len(vec) :
            (\E j \in DOMAIN sig : sig[j][1] = featureNames[i])
              <=> RuleHolds(featureNames[i], vec[i])
       /\ \A j \in DOMAIN sig :
            \E i \in 1..Len(vec) : sig[j] = <<featureNames[i], vec[i]>>
       /\ \A j, k \in DOMAIN sig :
            j < k => IndexOfName(sig[j][1]) < IndexOfName(sig[k][1])

C8_Witness ==
  /\ Extracted
  /\ significantFeatures.type = "return"
  /\ LET sig == significantFeatures.value
     IN /\ \E j \in DOMAIN sig : sig[j] = <<"domain_in_title", Num(0)>>
        /\ \E j \in DOMAIN sig : sig[j] = <<"ratio_intHyperlinks", Div(1, 2)>>
        /\ \E j \in DOMAIN sig : sig[j][1] = "prefix_suffix"
        /\ ~ \E j \in DOMAIN sig : sig[j][1] = "ip"

\* Whether a label of the hostnames extracted here parses as a number: the
\* empty label (Number("") is 0), the listed decimal, exponent and hexadecimal
\* literals, and runs of the digit 1 with an optional minus sign
ParsesAsNumber(label) ==
  \/ label \in {"", "192", "168", "123", "1e5", "0x1F"}
  \/ LET digits == IF label # "" /\ Head(label) = "-" THEN Tail(label) ELSE label
     IN digits # "" /\ AllIn(digits, {"1"})

\* C18: the ip slot is 1 if every dot-separated label of hostname parses as a
\* number and 0 otherwise; 192.168.1.1 gives 1 and example.com gives 0.
C18_IpIffEveryLabelNumeric ==
  Extracted =>
    LET labels == split(urlData.hostname, {"."})
    IN /\ features.value[3] =
            (IF \A i \in DOMAIN labels : ParsesAsNumber(labels[i])
             THEN Num(1) ELSE Num(0))
       /\ urlData.hostname = "192.168.1.1" => features.value[3] = Num(1)
       /\ urlData.hostname = "example.com" => features.value[3] = Num(0)

C18_Witness ==
  /\ Extracted
  /\ urlData.hostname = "192.168.1.1"
  /\ features.value[3] = Num(1)

C18_AlphabeticWitness ==
  /\ Extracted
  /\ urlData.hostname = "example.com"
  /\ features.value[3] = Num(0)

\* the slots computed from hostname: length_hostname, ip, ratio_digits_host,
\* tld_in_subdomain, prefix_suffix, shortest_word_host, ratio_intHyperlinks,
\* domain_in_title
HostnameSlots == {2, 3, 10, 11, 12, 13, 18, 20}

\* C19: for an observation with an empty hostname every hostname-derived slot
\* is 0.
C19_EmptyHostnameGivesZeroSlots ==
  (Extracted /\ urlData.hostname = "") =>
    \A i \in HostnameSlots : features.value[i] = Num(0)

-----------------------------------------------------------------------------
(* SpecScale: scaleFeatures of src/src/model.ts (lines 33-41), called on a *)
(* vector with the module variable `scaler` either null or holding the     *)
(* parsed scaler.json, an object with the arrays `mean` and `scale`        *)

MaxVecLen == 2

\* arr[index]; a missing element is undefined, NaN in arithmetic
At(arr, i) == IF i \in DOMAIN arr THEN arr[i] ELSE NaN

\* scaleFeatures without the subtraction of the mean
scaleFeaturesNoMean(vec, params) ==
  IF params = Null THEN Throw("Scaler not loaded")
  ELSE Return([i \in 1..Len(vec) |-> Quot(vec[i], At(params.scale, i))])

\* scaleFeatures multiplying by the scale
scaleFeaturesTimesScale(vec, params) ==
  IF params = Null THEN Throw("Scaler not loaded")
  ELSE Return([i \in 1..Len(vec) |->
                 Mul(Minus(vec[i], At(params.mean, i)), At(params.scale, i))])

\* scaleFeatures(features), with `scaler` holding params
scaleFeatures(vec, params) ==
  IF params = Null THEN Throw("Scaler not loaded")
  ELSE Return([i \in 1..Len(vec) |->
                 Quot(Minus(vec[i], At(params.mean, i)), At(params.scale, i))])

\* raw feature values (NaN is what a ratio over an empty string gives),
\* means and scales
RawValues   == {Num(0), Num(1), Div(1, 2), Num(25), NaN}
MeanValues  == {Num(0), Div(3, 2)}
ScaleValues == {Num(0), Num(2), Div(1, 4)}

RawVectors   == Lists(RawValues, MaxVecLen)
ScalerParams ==
  {[mean |-> m, scale |-> sc] : m \in [1..MaxVecLen -> MeanValues],
                                sc \in [1..MaxVecLen -> ScaleValues]}

InitScale ==
  /\ scalerJson \in ScalerParams \cup {Null}
  /\ scaleArg \in RawVectors
  /\ scaledFeatures = NotCalled
  /\ IdleFeatures
  /\ IdleLoad
  /\ IdleScan
  /\ IdleEvents
  /\ IdleHistory

ScaleFeatures ==
  /\ scaledFeatures = NotCalled
  /\ scaledFeatures' = scaleFeatures(scaleArg, scalerJson)
  /\ UNCHANGED <<scalerJson, scaleArg, featureVars, loadVars, eventVars, scanVars, historyVars>>

NextScale == ScaleFeatures

SpecScale == InitScale /\ [][NextScale]_vars

-----------------------------------------------------------------------------
(* Claims about the normalizer (SpecScale) *)

\* q is the quotient (v - m) / sc of finite numbers, sc not zero
IsScaled(q, v, m, sc) ==
  /\ q.d > 0
  /\ q.n * sc.n * v.d * m.d = q.d * sc.d * (v.n * m.d - m.n * v.d)

\* C11: with the parameters absent the normalizer fails with the not-loaded
\* error and produces no vector; with them loaded it returns a vector of the
\* same length whose slot i is (vector[i] - mean[i]) / scale[i], unclamped
\* (not a finite number when scale[i] is 0 or vector[i] is NaN).
C11_ScaleFeaturesContract ==
  scaledFeatures # NotCalled =>
    IF scalerJson = Null
    THEN scaledFeatures = Throw("Scaler not loaded")
    ELSE /\ scaledFeatures.type = "return"
         /\ Len(scaledFeatures.value) = Len(scaleArg)
         /\ \A i \in 1..Len(scaleArg) :
              IF IsFinite(scaleArg[i]) /\ scalerJson.scale[i] # Num(0)
              THEN IsScaled(scaledFeatures.value[i], scaleArg[i],
                            scalerJson.mean[i], scalerJson.scale[i])
              ELSE ~IsFinite(scaledFeatures.value[i])

C11_Witness ==
  /\ scalerJson # Null
  /\ scaleArg = <<Num(25), Num(0)>>
  /\ scalerJson.mean = <<Div(3, 2), Div(3, 2)>>
  /\ scalerJson.scale = <<Div(1, 4), Num(2)>>
  /\ scaledFeatures = Return(<<Num(94), Ratio(-3, 4)>>)

C11_NotLoadedWitness ==
  scalerJson = Null /\ Len(scaleArg) = 2 /\ scaledFeatures.type = "throw"

\* the round trip of slot i: normalized[i] * scale[i] + mean[i] = v[i]
RoundTrips(i) ==
  Add(Mul(scaledFeatures.value[i], scalerJson.scale[i]), scalerJson.mean[i])
    = scaleArg[i]

\* C12 as stated: for any vector and any loaded parameters, multiplying each
\* normalized slot by scale[i] and adding mean[i] gives back v[i].
C12_RoundTrip ==
  scaledFeatures.type = "return" => \A i \in 1..Len(scaleArg) : RoundTrips(i)

\* C12 amended: the round trip holds for every slot whose value is a finite
\* number and whose scale is not zero.
C12_RoundTripForNonzeroScale ==
  scaledFeatures.type = "return" =>
    \A i \in 1..Len(scaleArg) :
      (IsFinite(scaleArg[i]) /\ scalerJson.scale[i] # Num(0)) => RoundTrips(i)

C12_Witness ==
  /\ scaledFeatures.type = "return"
  /\ scaleArg = <<Div(1, 2), Num(25)>>
  /\ scalerJson.mean = <<Div(3, 2), Num(0)>>
  /\ scalerJson.scale = <<Div(1, 4), Num(2)>>
  /\ scaledFeatures.value = <<Num(-4), Div(25, 2)>>
  /\ RoundTrips(1) /\ RoundTrips(2)

-----------------------------------------------------------------------------
(* SpecLoad: the classifier adapter of src/src/model.ts.  Each caller is   *)
(* one asynchronous call of loadModel (as chrome.runtime.onInstalled makes *)
(* it) or of predict (as checkUrl makes it); an `await` ends an action,    *)
(* the settling of the awaited promise starts the next one.                *)

NumCallers == 2
MaxCalls   == 3

Callers == 1..NumCallers

\* lengths of the vectors handed to predict
VectorLengths == {0, 19, 20, 21}

\* values model.predict(...).dataSync()[0] can take for finite inputs
ClassifierOutputs == {Num(0), Div(3, 10), Num(1)}

LoadError == "TypeError: Failed to fetch"

\* the object a caller's tf.loadLayersModel resolves with, and the object its
\* response.json() resolves with: every load creates objects of its own
LayersModel(c)  == "model loaded by caller " \o ToString(c)
ParsedScaler(c) == "scaler loaded by caller " \o ToString(c)

\* the Error of line 207
InvalidInputError(n) == Throw("Expected 20 features, but got " \o ToString(n))

\* what model.predict and dataSync (lines 219-222) can do: give the
\* classifier's output, or throw an error of the backend
InferenceError == "Error: Failed to compile fragment shader"
InferenceOutcomes ==
  {Return(p) : p \in ClassifierOutputs} \cup {Throw(InferenceError)}

\* lines 201-233 of predict, which run without suspending: the model check,
\* the length check, scaleFeatures (lines 33-36) and the inference
PredictBody(n, inference) ==
  IF model = "null" THEN Throw("Model failed to load")
  ELSE IF n # 20 THEN InvalidInputError(n)
  ELSE IF scaler = "null" THEN Throw("Scaler not loaded")
  ELSE inference

\* the tensors the function given to tf.tidy has created when it exits:
\* none when scaleFeatures throws (line 213), inputTensor (line 216) when
\* the inference throws, inputTensor and prediction (line 219) otherwise
AllocatedInTidy(inference) ==
  IF scaler = "null" THEN 0
  ELSE IF inference.type = "throw" THEN 1
  ELSE 2

\* the tensors it has disposed of itself: lines 225-226 are reached only
\* when nothing threw
DisposedInTidy(inference) ==
  IF scaler # "null" /\ inference.type = "return" THEN 2 ELSE 0

\* a scope that releases nothing of what its function leaves behind
tidyReleasesNothing(allocated, disposed) == 0

\* tf.tidy (line 210): when its function returns a number or throws, the
\* scope ends and every tensor created in it and still alive is disposed;
\* the number of tensors the scope releases
tidy(allocated, disposed) == allocated - disposed

\* the tensors a call of predict leaves alive: none is created before line 210
TensorsLeftBy(n, inference) ==
  IF model = "null" \/ n # 20 THEN 0
  ELSE AllocatedInTidy(inference) - DisposedInTidy(inference)
         - tidy(AllocatedInTidy(inference), DisposedInTidy(inference))

\* loadModel(): line 10 and, when the model is missing, the start of
\* tf.loadLayersModel at line 13, up to its await
CallLoadModel(c) ==
  /\ pc[c] = "idle"
  /\ call' = [call EXCEPT ![c] = "loadModel"]
  /\ IF model = "null"
     THEN /\ loadAttempts' = loadAttempts + 1
          /\ pc' = [pc EXCEPT ![c] = "awaitModel"]
          /\ outcome' = [outcome EXCEPT ![c] = NotCalled]
     ELSE /\ outcome' = [outcome EXCEPT ![c] = Return(model)]
          /\ UNCHANGED <<pc, loadAttempts>>
  /\ UNCHANGED <<model, scaler, nFeatures, loadsCompleted, loadsFailed, numTensors>>

\* predict(features): lines 196-199 and, when the model is missing, loadModel
\* up to its first await; otherwise the whole body
CallPredict(c) ==
  /\ pc[c] = "idle"
  /\ call' = [call EXCEPT ![c] = "predict"]
  /\ \E n \in VectorLengths :
       /\ nFeatures' = [nFeatures EXCEPT ![c] = n]
       /\ IF model = "null"
          THEN /\ loadAttempts' = loadAttempts + 1
               /\ pc' = [pc EXCEPT ![c] = "awaitModel"]
               /\ outcome' = [outcome EXCEPT ![c] = NotCalled]
               /\ UNCHANGED numTensors
          ELSE /\ \E inference \in InferenceOutcomes :
                    /\ outcome' = [outcome EXCEPT ![c] = PredictBody(n, inference)]
                    /\ numTensors' = numTensors + TensorsLeftBy(n, inference)
               /\ UNCHANGED <<pc, loadAttempts>>
  /\ UNCHANGED <<model, scaler, loadsCompleted, loadsFailed>>

\* loadModel ends (line 27, or the rethrow of line 24); a predict that awaits
\* it at line 198 is resumed later
LoadModelEnds(c, threw) ==
  /\ loadsCompleted' = loadsCompleted + 1
  /\ loadsFailed' = IF threw THEN loadsFailed + 1 ELSE loadsFailed
  /\ IF call[c] = "loadModel"
     THEN /\ pc' = [pc EXCEPT ![c] = "idle"]
          /\ outcome' = [outcome EXCEPT ![c] =
                           IF threw THEN Throw(LoadError) ELSE Return(model)]
     ELSE /\ pc' = [pc EXCEPT ![c] = IF threw THEN "loadThrew" ELSE "loadReturned"]
          /\ UNCHANGED outcome

\* line 13: tf.loadLayersModel settles; on success `model` is assigned and the
\* scaler fetch of line 17 starts
LoadLayersModelSettles(c) ==
  /\ pc[c] = "awaitModel"
  /\ \/ /\ model' = LayersModel(c)
        /\ pc' = [pc EXCEPT ![c] = "awaitScaler"]
        /\ UNCHANGED <<outcome, loadsCompleted, loadsFailed>>
     \/ /\ LoadModelEnds(c, TRUE)
        /\ UNCHANGED model
  /\ UNCHANGED <<scaler, call, nFeatures, loadAttempts, numTensors>>

\* line 17: fetch(scaler.json) settles; on success response.json() starts
FetchScalerSettles(c) ==
  /\ pc[c] = "awaitScaler"
  /\ \/ /\ pc' = [pc EXCEPT ![c] = "awaitJson"]
        /\ UNCHANGED <<outcome, loadsCompleted, loadsFailed>>
     \/ LoadModelEnds(c, TRUE)
  /\ UNCHANGED <<model, scaler, call, nFeatures, loadAttempts, numTensors>>

\* line 19: response.json() settles; on success `scaler` is assigned and
\* loadModel returns the model
ScalerJsonSettles(c) ==
  /\ pc[c] = "awaitJson"
  /\ \/ /\ scaler' = ParsedScaler(c)
        /\ LoadModelEnds(c, FALSE)
     \/ /\ LoadModelEnds(c, TRUE)
        /\ UNCHANGED scaler
  /\ UNCHANGED <<model, call, nFeatures, loadAttempts, numTensors>>

\* line 198 resumes: the error of loadModel is rethrown (lines 234-237), or
\* predict goes on with lines 201-233
PredictResumes(c) ==
  /\ pc[c] \in {"loadThrew", "loadReturned"}
  /\ pc' = [pc EXCEPT ![c] = "idle"]
  /\ IF pc[c] = "loadThrew"
     THEN /\ outcome' = [outcome EXCEPT ![c] = Throw(LoadError)]
          /\ UNCHANGED numTensors
     ELSE \E inference \in InferenceOutcomes :
            /\ outcome' = [outcome EXCEPT ![c] = PredictBody(nFeatures[c], inference)]
            /\ numTensors' = numTensors + TensorsLeftBy(nFeatures[c], inference)
  /\ UNCHANGED <<model, scaler, call, nFeatures, loadAttempts, loadsCompleted,
                 loadsFailed>>

InitLoad ==
  /\ model = "null"
  /\ scaler = "null"
  /\ pc = [c \in Callers |-> "idle"]
  /\ call = [c \in Callers |-> "none"]
  /\ nFeatures = [c \in Callers |-> 0]
  /\ outcome = [c \in Callers |-> NotCalled]
  /\ loadAttempts = 0
  /\ loadsCompleted = 0
  /\ loadsFailed = 0
  /\ numTensors = 0
  /\ IdleFeatures
  /\ IdleScan
  /\ IdleScale
  /\ IdleEvents
  /\ IdleHistory

NextLoad ==
  \E c \in Callers :
    \/ loadAttempts < MaxCalls /\ CallLoadModel(c) /\ UNCHANGED <<featureVars, scanVars, eventVars, scaleVars, historyVars>>
    \/ loadAttempts < MaxCalls /\ CallPredict(c) /\ UNCHANGED <<featureVars, scanVars, eventVars, scaleVars, historyVars>>
    \/ LoadLayersModelSettles(c) /\ UNCHANGED <<featureVars, scanVars, eventVars, scaleVars, historyVars>>
    \/ FetchScalerSettles(c) /\ UNCHANGED <<featureVars, scanVars, eventVars, scaleVars, historyVars>>
    \/ ScalerJsonSettles(c) /\ UNCHANGED <<featureVars, scanVars, eventVars, scaleVars, historyVars>>
    \/ PredictResumes(c) /\ UNCHANGED <<featureVars, scanVars, eventVars, scaleVars, historyVars>>

SpecLoad == InitLoad /\ [][NextLoad]_vars

-----------------------------------------------------------------------------
(* Claims about the classifier adapter (SpecLoad) *)

\* C2: callers that invoke the load before any load has completed share one
\* underlying load attempt: while no loadModel has completed, at most one
\* model fetch has been started.
C2_OneLoadAttemptBeforeCompletion ==
  loadsCompleted = 0 => loadAttempts <= 1

\* C7: predict called with a vector whose length is not 20 always fails with
\* the invalid-input error, whether the classifier is not loaded, fails to
\* load, or is loaded.
C7_WrongLengthIsInvalidInput ==
  \A c \in DOMAIN pc :
    (call[c] = "predict" /\ nFeatures[c] # 20 /\ outcome[c] # NotCalled)
      => outcome[c] = InvalidInputError(nFeatures[c])

\* C13: the outcome of a load attempt is cached, failure included: once a
\* load attempt has failed, no later predict or loadModel call starts another
\* underlying load attempt (the model has no reset operation).
C13_FailedLoadIsNotRetried ==
  [][loadsFailed > 0 => loadAttempts' = loadAttempts]_vars

NoLoadInFlight == \A c \in DOMAIN pc : pc[c] = "idle"

\* C14: a failed load does not disable scoring permanently.  A predict call
\* on a 20-slot vector that is made after a failed load, while no load is in
\* flight, and that completes without starting any fetch (so that no
\* unreachable resource can be what fails it) returns a probability.
C14_FailedLoadDoesNotDisableScoring ==
  [][(loadsFailed > 0 /\ NoLoadInFlight) =>
       \A c \in DOMAIN pc :
         (call'[c] = "predict" /\ nFeatures'[c] = 20 /\ outcome'[c] # outcome[c])
           => outcome'[c].type # "throw"]_vars

\* C15: once a load has completed successfully, the classifier and the
\* normalization parameters are never assigned again.
C15_LoadedOnceNeverReassigned ==
  [][loadsCompleted > loadsFailed => (model' = model /\ scaler' = scaler)]_vars

-----------------------------------------------------------------------------
(* SpecRepeat: extractFeatures called again and again, as every scan calls *)
(* it (background.ts line 234), on observations seen before or not, while  *)
(* the module state of model.ts changes between the calls                  *)

MaxRepeats == 2

RepeatObservations ==
  { [url |-> "https://example.com/login", hostname |-> "example.com",
     path |-> "/login", title |-> "Example Domain",
     hyperlinks |-> <<"https://example.com/a", "http://COM.evil-site.com/1">>],
    [url |-> "https://example.com/login", hostname |-> "example.com",
     path |-> "/login", title |-> "", hyperlinks |-> <<>>],
    [url |-> "http://192.168.1.1/", hostname |-> "192.168.1.1", path |-> "/"],
    [url |-> "", hostname |-> "", path |-> ""] }

InitRepeat ==
  /\ urlData = NoObservation
  /\ features = NotCalled
  /\ explained = NotCalled
  /\ significantFeatures = NotCalled
  /\ extracted = <<>>
  /\ earlier = NoScan
  /\ IdleLoad
  /\ IdleScan
  /\ IdleScale
  /\ IdleEvents

CallsOf(obs) == IF obs \in DOMAIN extracted THEN extracted[obs].calls ELSE 0

\* one more call extractFeatures(obs)
ExtractAgain ==
  /\ \E obs \in RepeatObservations :
       /\ CallsOf(obs) < MaxRepeats
       /\ urlData' = obs
       /\ features' = extractFeatures(obs)
       /\ extracted' =
            IF obs \in DOMAIN extracted
            THEN [extracted EXCEPT ![obs].calls = @ + 1]
            ELSE extracted @@ (obs :> [first |-> features', calls |-> 1])
  /\ UNCHANGED <<explained, significantFeatures, earlier, loadVars, eventVars, scanVars, scaleVars>>

\* between two extractions a load completes: model and scaler, the only
\* module-level variables of model.ts (lines 3-4), change
LoadCompletesBetween ==
  /\ model = "null"
  /\ model' = LayersModel(1)
  /\ scaler' = ParsedScaler(1)
  /\ UNCHANGED <<pc, call, nFeatures, outcome, loadAttempts, loadsCompleted, loadsFailed,
                 numTensors>>
  /\ UNCHANGED <<featureVars, scanVars, eventVars, scaleVars, historyVars>>

NextRepeat == ExtractAgain \/ LoadCompletesBetween

SpecRepeat == InitRepeat /\ [][NextRepeat]_vars

-----------------------------------------------------------------------------
(* Spec: one scan by checkUrl, in the two revisions of the background      *)
(* script the repository holds (src/src/background.ts lines 205-327 and    *)
(* src/unnamed/part_004 lines 244-391), up to the CheckResult it returns,  *)
(* and the popup that shows the result.  The timestamp `lastScanned` is    *)
(* left out of the result.                                                 *)

ScoreSteps == 200

Builds == {"background.ts", "part_004"}
Popups == {"Popup.tsx", "part_003", "part_002"}

\* the values `new URL(url)` gives for the URLs scanned here; ok = FALSE is
\* the TypeError it throws for a string that is no URL
UrlTable ==
  { [href |-> "https://example.com/login", ok |-> TRUE, protocol |-> "https:",
     hostname |-> "example.com", pathname |-> "/login"],
    [href |-> "http://192.168.1.1/", ok |-> TRUE, protocol |-> "http:",
     hostname |-> "192.168.1.1", pathname |-> "/"],
    [href |-> "chrome://extensions/", ok |-> TRUE, protocol |-> "chrome:",
     hostname |-> "extensions", pathname |-> "/"],
    [href |-> "file:///tmp/a.html", ok |-> TRUE, protocol |-> "file:",
     hostname |-> "", pathname |-> "/tmp/a.html"],
    [href |-> "not a url", ok |-> FALSE, protocol |-> "",
     hostname |-> "", pathname |-> ""] }

ScanUrls  == {r.href : r \in UrlTable}
NewURL(u) == CHOOSE r \in UrlTable : r.href = u

\* tabId: 0 for a CHECK_URL request of the popup, a tab's id otherwise
TabIds == {0, 1}

\* what getPageInfo resolves with; it catches every error itself
PageInfos ==
  { [title |-> "", hyperlinks |-> <<>>],
    [title |-> "Example Domain", hyperlinks |-> <<"https://example.com/a">>] }

\* the probabilities the classifier can give
Scores == {Div(k, ScoreSteps) : k \in 0..ScoreSteps}

HasNaN(vec) == \E i \in DOMAIN vec : IsNaN(vec[i])

\* how `await predict(features)` can settle: with the classifier's output
\* (NaN possible when a scaled input is NaN), or with one of predict's errors
PredictCompletions(vec) ==
  {Return(p) : p \in Scores \cup (IF HasNaN(vec) THEN {NaN} ELSE {})}
    \cup {Throw(m) : m \in {LoadError, "Model failed to load", "Scaler not loaded"}}
    \cup (IF Len(vec) # 20 THEN {InvalidInputError(Len(vec))} ELSE {})

forbiddenProtocols == {"chrome:", "edge:", "file:", "chrome-extension:", "about:", "data:"}

\* part_004 lines 151-166
isForbiddenUrl(u) ==
  IF ~NewURL(u).ok THEN TRUE
  ELSE toLowerCase(NewURL(u).protocol) \in forbiddenProtocols

\* the early returns of checkUrl: background.ts lines 208-212, part_004
\* lines 250-257 (warned: what wasWarningShown(url) resolved with)
SkipsUrl(b, u, warned) ==
  IF b = "background.ts" THEN startsWith(u, "chrome://")
  ELSE warned \/ isForbiddenUrl(u)

\* the threshold of the ML contribution: background.ts line 255, part_004 line 286
MlThreshold(b) == IF b = "background.ts" THEN Div(1, 2) ELSE Div(3, 10)

RoundedPercent(p) == MathRound(Times(p, 100))

\* RiskScore without the final Math.min
RiskScoreUnclamped(p, unsafe) ==
  IF unsafe THEN Plus(RoundedPercent(p), 60) ELSE RoundedPercent(p)

\* background.ts lines 250, 261-262, 272; part_004 lines 281, 290-291, 295
RiskScore(p, unsafe) ==
  MathMinOf(100, IF unsafe THEN Plus(RoundedPercent(p), 60) ELSE RoundedPercent(p))

PercentText(x) == IF x.d = 0 THEN "NaN" ELSE ToString(x.n)

MlThreat(p) ==
  "ML Model detected suspicious patterns (" \o PercentText(RoundedPercent(p))
    \o "% confidence)"

\* background.ts lines 251-265, part_004 lines 282-294
Threats(b, p, unsafe) ==
  (IF Gt(p, MlThreshold(b)) THEN <<MlThreat(p)>> ELSE <<>>)
    \o (IF unsafe THEN <<"Flagged by Google Safe Browsing">> ELSE <<>>)

DetectionSources(b, p, unsafe) ==
  (IF Gt(p, MlThreshold(b)) THEN <<"Machine Learning Model">> ELSE <<>>)
    \o (IF unsafe THEN <<"Google Safe Browsing">> ELSE <<>>)

\* the result with a score that counts the significant features in
CheckResultDataExplained(b, u, p, unsafe, sig) ==
  LET bonus == IF sig = NotCalled THEN 0 ELSE Len(sig)
      score == MathMinOf(100, Plus(RiskScore(p, unsafe), bonus))
  IN [ url                 |-> u,
       riskScore           |-> score,
       threats             |-> Threats(b, p, unsafe),
       isSecure            |-> Lt(score, Num(40)),
       mlPredictionScore   |-> p,
       detectionSources    |-> DetectionSources(b, p, unsafe),
       significantFeatures |-> sig,
       featureDescriptions |-> sig # NotCalled ]

\* background.ts lines 278-291, part_004 lines 299-312
CheckResultData(b, u, p, unsafe, sig) ==
  [ url                 |-> u,
    riskScore           |-> RiskScore(p, unsafe),
    threats             |-> Threats(b, p, unsafe),
    isSecure            |-> Lt(RiskScore(p, unsafe), Num(40)),
    mlPredictionScore   |-> p,
    detectionSources    |-> DetectionSources(b, p, unsafe),
    significantFeatures |-> sig,
    featureDescriptions |-> sig # NotCalled ]

\* the catch block's result with the score and the threats of no error
ErrorResultDataUnknownRisk(u, message) ==
  [ url              |-> u,
    riskScore        |-> Num(50),
    threats          |-> <<>>,
    isSecure         |-> FALSE,
    detectionSources |-> <<>> ]

\* part_004 line 325: `riskScore > 95`
WarningThreshold == 95

\* the rejection of chrome.scripting.executeScript
ScriptError == "Cannot access contents of the page"

\* background.ts lines 312-326, part_004 lines 376-390
ErrorResultData(u, message) ==
  [ url              |-> u,
    riskScore        |-> Num(0),
    threats          |-> <<"Error checking URL: " \o message>>,
    isSecure         |-> FALSE,
    detectionSources |-> <<>> ]


\* Popup.tsx lines 205-209 and part_003 lines 245-249
getRiskLevelText(score) ==
  IF Ge(score, Num(75)) THEN "High Risk"
  ELSE IF Ge(score, Num(50)) THEN "Medium Risk"
  ELSE "Low Risk"

\* part_002 lines 159-163
getRiskLevel(score) ==
  IF Ge(score, Num(60)) THEN "High Risk"
  ELSE IF Ge(score, Num(30)) THEN "Medium Risk"
  ELSE "Low Risk"

InitScan ==
  /\ build \in Builds
  /\ scanUrl \in ScanUrls
  /\ tabId \in TabIds
  /\ scanPc = "idle"
  /\ mlScore = NaN
  /\ isUnsafe = FALSE
  /\ result = NotCalled
  /\ caughtError = ""
  /\ warning = "none"
  /\ popup = "none"
  /\ popupScore = Num(0)
  /\ riskLevel = ""
  /\ IdleFeatures
  /\ IdleLoad
  /\ IdleScale
  /\ IdleEvents
  /\ IdleHistory

\* the catch block of checkUrl
CheckUrlCatches(message) ==
  /\ caughtError' = message
  /\ result' = Return(ErrorResultData(scanUrl, message))
  /\ scanPc' = "done"

\* lines 226-236 of background.ts (264-272 of part_004): urlData is built,
\* the features are extracted and predict is called
ExtractAndCallPredict(pageInfo) ==
  IF ~NewURL(scanUrl).ok
  THEN /\ CheckUrlCatches("Invalid URL")
       /\ UNCHANGED <<urlData, features>>
  ELSE /\ urlData' = [url |-> scanUrl, hostname |-> NewURL(scanUrl).hostname,
                      path |-> NewURL(scanUrl).pathname, title |-> pageInfo.title,
                      hyperlinks |-> pageInfo.hyperlinks]
       /\ features' = extractFeatures(urlData')
       /\ IF features'.type = "throw"
          THEN CheckUrlCatches(features'.value)
          ELSE scanPc' = "awaitPredict" /\ UNCHANGED <<result, caughtError>>

\* checkUrl is called: the early returns, then getPageInfo when there is a
\* tab, else the extraction with the empty page info
CheckUrlBegins ==
  /\ scanPc = "idle"
  /\ \E warned \in BOOLEAN :
       IF SkipsUrl(build, scanUrl, warned)
       THEN /\ result' = Null
            /\ scanPc' = "done"
            /\ UNCHANGED <<urlData, features, caughtError>>
       ELSE IF tabId > 0
       THEN /\ scanPc' = "awaitPageInfo"
            /\ UNCHANGED <<urlData, features, result, caughtError>>
       ELSE ExtractAndCallPredict([title |-> "", hyperlinks |-> <<>>])
  /\ UNCHANGED <<explained, significantFeatures, loadVars, eventVars, scaleVars, historyVars, build, scanUrl,
                 tabId, mlScore, isUnsafe, warning, popup, popupScore, riskLevel>>

PageInfoSettles ==
  /\ scanPc = "awaitPageInfo"
  /\ \E pageInfo \in PageInfos : ExtractAndCallPredict(pageInfo)
  /\ UNCHANGED <<explained, significantFeatures, loadVars, eventVars, scaleVars, historyVars, build, scanUrl,
                 tabId, mlScore, isUnsafe, warning, popup, popupScore, riskLevel>>

\* `await predict(features)` settles; lines 239-246 (274-279): the significant
\* features when mlScore > 0, and the Safe Browsing lookup is started
PredictSettles ==
  /\ scanPc = "awaitPredict"
  /\ \E completion \in PredictCompletions(features.value) :
       IF completion.type = "throw"
       THEN /\ CheckUrlCatches(completion.value)
            /\ UNCHANGED <<mlScore, explained, significantFeatures>>
       ELSE /\ mlScore' = completion.value
            /\ IF Gt(mlScore', Num(0))
               THEN /\ explained' = Return(features.value)
                    /\ significantFeatures' = getSignificantFeatures(features.value)
               ELSE UNCHANGED <<explained, significantFeatures>>
            /\ scanPc' = "awaitSafeBrowsing"
            /\ UNCHANGED <<result, caughtError>>
  /\ UNCHANGED <<urlData, features, loadVars, eventVars, scaleVars, historyVars, build, scanUrl, tabId,
                 isUnsafe, warning, popup, popupScore, riskLevel>>

\* the CheckResult of this scan (background.ts lines 278-291)
ScanResult(unsafe) ==
  CheckResultData(build, scanUrl, mlScore, unsafe,
                  IF significantFeatures = NotCalled THEN NotCalled
                  ELSE significantFeatures.value)

\* the interstitial due for every score of the High tier
WarningDueAtHighRisk(b, riskScore, tab) ==
  b = "part_004" /\ Ge(riskScore, Num(75)) /\ tab > 0

\* part_004 line 325: the interstitial is due; src/src/background.ts has none
WarningDue(b, riskScore, tab) ==
  b = "part_004" /\ Gt(riskScore, Num(WarningThreshold)) /\ tab > 0

\* `await checkUrlWithSafeBrowsing(url)` settles (it catches its own errors);
\* lines 249-291 (281-312): the score, the threats and the result; in
\* part_004 lines 325-334 follow: when the interstitial is due the overlay
\* script is injected into the tab, else the result is returned
SafeBrowsingSettles ==
  /\ scanPc = "awaitSafeBrowsing"
  /\ \E unsafe \in BOOLEAN :
       /\ isUnsafe' = unsafe
       /\ IF WarningDue(build, RiskScore(mlScore, unsafe), tabId)
          THEN scanPc' = "awaitOverlay" /\ UNCHANGED result
          ELSE scanPc' = "done" /\ result' = Return(ScanResult(unsafe))
  /\ UNCHANGED <<featureVars, loadVars, eventVars, scaleVars, historyVars, build, scanUrl, tabId, mlScore,
                 caughtError, warning, popup, popupScore, riskLevel>>

\* part_004 lines 334-355: the first executeScript settles; on success the
\* page is stopped and covered by the overlay, and the script that fills it
\* is injected; a rejection goes to the catch block
OverlayScriptSettles ==
  /\ scanPc = "awaitOverlay"
  /\ \/ /\ warning' = "overlay"
        /\ scanPc' = "awaitWarningPage"
        /\ UNCHANGED <<result, caughtError>>
     \/ /\ CheckUrlCatches(ScriptError)
        /\ UNCHANGED warning
  /\ UNCHANGED <<featureVars, loadVars, eventVars, scaleVars, historyVars, build, scanUrl, tabId, mlScore,
                 isUnsafe, popup, popupScore, riskLevel>>

\* part_004 lines 357-375: the second executeScript settles; on success the
\* warning page is shown in the overlay and checkUrl returns the result
WarningPageScriptSettles ==
  /\ scanPc = "awaitWarningPage"
  /\ \/ /\ warning' = "shown"
        /\ scanPc' = "done"
        /\ result' = Return(ScanResult(isUnsafe))
        /\ UNCHANGED caughtError
     \/ /\ CheckUrlCatches(ScriptError)
        /\ UNCHANGED warning
  /\ UNCHANGED <<featureVars, loadVars, eventVars, scaleVars, historyVars, build, scanUrl, tabId, mlScore,
                 isUnsafe, popup, popupScore, riskLevel>>

\* the popup receives the result (Popup.tsx lines 112-128, 150-184): it keeps
\* the score, or 0 when there is no result, and renders the tier of it
PopupShows ==
  /\ scanPc = "done"
  /\ popup = "none"
  /\ \E revision \in Popups :
       /\ popup' = revision
       /\ popupScore' = IF result = Null THEN Num(0) ELSE result.value.riskScore
       /\ riskLevel' = IF revision = "part_002" THEN getRiskLevel(popupScore')
                       ELSE getRiskLevelText(popupScore')
  /\ UNCHANGED <<featureVars, loadVars, eventVars, scaleVars, historyVars, build, scanUrl, tabId, scanPc,
                 mlScore, isUnsafe, result, caughtError, warning>>

Next == CheckUrlBegins \/ PageInfoSettles \/ PredictSettles \/ SafeBrowsingSettles
          \/ OverlayScriptSettles \/ WarningPageScriptSettles \/ PopupShows

Spec == InitScan /\ [][Next]_vars

-----------------------------------------------------------------------------
(* Claims about the scan and its display (Spec) *)

\* checkUrl returned a CheckResult built from a classifier probability
SuccessfulScan ==
  result.type = "return" /\ "mlPredictionScore" \in DOMAIN result.value

IsProbability(p) == Ge(p, Num(0)) /\ Le(p, Num(1))

Clamp(k) == IF k > 100 THEN 100 ELSE IF k < 0 THEN 0 ELSE k

\* C1: for every probability p in [0,1] and either reputation outcome, the
\* riskScore of a successful scan is round(p * 100), plus 60 if the URL was
\* flagged, clamped to [0,100]: an integer between 0 and 100.
C1_RiskScoreIsClampedSum ==
  (SuccessfulScan /\ IsProbability(mlScore)) =>
    LET r == result.value.riskScore
    IN /\ r.d = 1
       /\ r.n \in 0..100
       /\ \E rounded \in 0..100 :
            \* rounded = round(p * 100): rounded - 1/2 <= 100 p < rounded + 1/2
            /\ (2 * rounded - 1) * mlScore.d <= 200 * mlScore.n
            /\ 200 * mlScore.n < (2 * rounded + 1) * mlScore.d
            /\ r.n = Clamp(rounded + (IF isUnsafe THEN 60 ELSE 0))

C1_Witness ==
  /\ SuccessfulScan
  /\ mlScore = Div(1, 2)
  /\ isUnsafe
  /\ result.value.riskScore = Num(100)

\* C9: the displayed tier is High when riskScore >= 75, Medium when
\* 50 <= riskScore < 75 and Low otherwise.
C9_TierByScore ==
  riskLevel # "" =>
    riskLevel = (IF Ge(popupScore, Num(75)) THEN "High Risk"
                 ELSE IF Ge(popupScore, Num(50)) THEN "Medium Risk"
                 ELSE "Low Risk")

\* C10: in a successful scan the ML threat string is in threats, and
\* "Machine Learning Model" in detectionSources, exactly when the classifier
\* probability is strictly greater than 0.3.
C10_MlThreatIffAboveThreeTenths ==
  (SuccessfulScan /\ IsProbability(mlScore)) =>
    LET data == result.value
    IN /\ (\E i \in DOMAIN data.threats : data.threats[i] = MlThreat(mlScore))
            <=> Gt(mlScore, Div(3, 10))
       /\ (\E i \in DOMAIN data.detectionSources :
             data.detectionSources[i] = "Machine Learning Model")
            <=> Gt(mlScore, Div(3, 10))

-----------------------------------------------------------------------------
(* SpecTwoScans: two scans one after the other, as the navigation and tab  *)
(* listeners start them (background.ts lines 330-375, part_004 lines       *)
(* 434-506): the second checkUrl call starts when the first has returned a *)
(* result, on a URL and tab of its own.  The classifier's probabilities    *)
(* are taken from a few values on both sides of the thresholds.            *)

ProbeScores == {Num(0), Div(3, 10), Div(2, 5), Div(1, 2), Div(24, 25), Num(1)}

\* what the first scan computed
ScanSummary ==
  [ mlScore             |-> mlScore,
    isUnsafe            |-> isUnsafe,
    features            |-> features,
    significantFeatures |-> result.value.significantFeatures,
    riskScore           |-> result.value.riskScore,
    threats             |-> result.value.threats,
    detectionSources    |-> result.value.detectionSources ]

\* the next event calls checkUrl again: a new activation with locals of its
\* own
ScanAgain ==
  /\ scanPc = "done"
  /\ earlier = NoScan
  /\ result.type = "return"
  /\ "mlPredictionScore" \in DOMAIN result.value
  /\ earlier' = ScanSummary
  /\ scanUrl' \in ScanUrls
  /\ tabId' \in TabIds
  /\ scanPc' = "idle"
  /\ mlScore' = NaN
  /\ isUnsafe' = FALSE
  /\ result' = NotCalled
  /\ caughtError' = ""
  /\ urlData' = NoObservation
  /\ features' = NotCalled
  /\ explained' = NotCalled
  /\ significantFeatures' = NotCalled
  /\ UNCHANGED <<build, warning, popup, popupScore, riskLevel, extracted, loadVars, eventVars,
                 scaleVars>>

NextTwoScans ==
  \/ CheckUrlBegins
  \/ PageInfoSettles
  \/ PredictSettles /\ mlScore' \in ProbeScores \cup {NaN}
  \/ SafeBrowsingSettles
  \/ OverlayScriptSettles
  \/ WarningPageScriptSettles
  \/ ScanAgain

SpecTwoScans == InitScan /\ [][NextTwoScans]_vars

-----------------------------------------------------------------------------
(* Claims about the scan, continued *)

\* the errors the pipeline (URL parsing, extraction, predict) can throw
PipelineErrors ==
  {"Invalid URL", LoadError, "Model failed to load", "Scaler not loaded"}
    \cup {InvalidInputError(n).value : n \in VectorLengths \ {20}}

\* C16: whenever the pipeline fails inside a scan, checkUrl does not throw: it
\* returns a result with riskScore = 0 and a threats list whose one entry
\* describes the failure, and the scan does not trigger the warning
\* interstitial.
C16_PipelineFailureGivesSafeDefault ==
  /\ result.type # "throw"
  /\ caughtError \in PipelineErrors =>
       /\ scanPc = "done"
       /\ result.type = "return"
       /\ result.value.riskScore = Num(0)
       /\ result.value.threats = <<"Error checking URL: " \o caughtError>>
       /\ warning = "none"

C16_Witness ==
  /\ build = "part_004"
  /\ tabId > 0
  /\ caughtError = "Scaler not loaded"
  /\ result.type = "return"
  /\ result.value.riskScore = Num(0)
  /\ Len(result.value.threats) = 1

C16_InvalidUrlWitness ==
  /\ build = "background.ts"
  /\ caughtError = "Invalid URL"
  /\ result.type = "return"
  /\ result.value.threats = <<"Error checking URL: Invalid URL">>

\* C20: the significant-feature mapping never influences the score: two scans
\* with the same classifier probability and the same reputation outcome have
\* the same riskScore, threats and detectionSources, whatever their feature
\* vectors and significantFeatures are.
C20_ScoreIndependentOfSignificantFeatures ==
  (/\ earlier # NoScan
   /\ SuccessfulScan
   /\ mlScore = earlier.mlScore
   /\ isUnsafe = earlier.isUnsafe) =>
     /\ result.value.riskScore = earlier.riskScore
     /\ result.value.threats = earlier.threats
     /\ result.value.detectionSources = earlier.detectionSources

C20_Witness ==
  /\ earlier # NoScan
  /\ SuccessfulScan
  /\ mlScore = Div(2, 5)
  /\ mlScore = earlier.mlScore
  /\ isUnsafe = earlier.isUnsafe
  /\ features # earlier.features
  /\ result.value.significantFeatures # earlier.significantFeatures
  /\ result.value.riskScore = earlier.riskScore

\* the detection source a threat line is written for
SourceOfThreat(threat) ==
  IF startsWith(threat, "ML Model detected suspicious patterns")
    THEN "Machine Learning Model"
  ELSE IF threat = "Flagged by Google Safe Browsing"
    THEN "Google Safe Browsing"
  ELSE "none"

\* checkUrl returned a result object (not null)
ReturnedResult ==
  result.type = "return" /\ "threats" \in DOMAIN result.value

\* C21: in every scan result checkUrl returns, threats and detectionSources
\* have the same length, and the i-th threat is the threat of the i-th
\* detection source.
C21_OneThreatPerSource ==
  ReturnedResult =>
    /\ Len(result.value.threats) = Len(result.value.detectionSources)
    /\ \A i \in 1..Len(result.value.threats) :
         /\ i \in 1..Len(result.value.detectionSources)
         /\ result.value.detectionSources[i]
              = SourceOfThreat(result.value.threats[i])

\* the same pairing, for the results built from a classifier probability
C21_SuccessfulResultsPairUp ==
  SuccessfulScan =>
    /\ Len(result.value.threats) = Len(result.value.detectionSources)
    /\ \A i \in 1..Len(result.value.threats) :
         result.value.detectionSources[i]
           = SourceOfThreat(result.value.threats[i])

C21_Witness ==
  /\ SuccessfulScan
  /\ Len(result.value.threats) = 2

C23_HighButNotBlockedWitness ==
  /\ build = "part_004"
  /\ tabId > 0
  /\ ReturnedResult
  /\ result.value.riskScore = Num(95)
  /\ warning = "none"
  /\ riskLevel = "High Risk"

-----------------------------------------------------------------------------
(* Claims about the loaded artefacts, continued (SpecLoad) *)

\* C25: whenever no load is in progress, model is never non-null while scaler
\* is null.
C25_ModelImpliesScalerWhenIdle ==
  NoLoadInFlight => ~(model # "null" /\ scaler = "null")

\* the state the failed scaler fetch leaves behind, with every call ended
C25_ModelWithoutScaler ==
  /\ NoLoadInFlight
  /\ model # "null"
  /\ scaler = "null"
  /\ loadsFailed > 0

\* a call of predict has ended
PredictEnded(c) ==
  call[c] = "predict" /\ pc[c] = "idle" /\ outcome[c] # NotCalled

C24_NoLiveTensor == numTensors = 0

C24_ScalerMissingWitness ==
  /\ numTensors = 0
  /\ model # "null"
  /\ \E c \in Callers : PredictEnded(c) /\ outcome[c] = Throw("Scaler not loaded")

-----------------------------------------------------------------------------
(* SpecEvents: the listeners and the message handlers of the service       *)
(* worker, with several scans in flight. The pipeline of checkUrl (page    *)
(* info, features, predict, Safe Browsing), which Spec follows step by     *)
(* step, is one step here: it gives a riskScore or throws. The awaits of   *)
(* the warning block, and every storage write with the await of it, are    *)
(* taken without another handler running in between.                       *)

\* the number of events SpecEvents handles, with their handlers interleaved
MaxEvents == 2

\* the listeners registered with the browser: part_004 lines 434, 452, 482
Listeners == {"onBeforeNavigate", "onUpdated", "onActivated"}

\* the riskScore the pipeline of a scan can give
EventScores == {Num(10), Num(100)}

\* what getSiteInfo resolves with (it catches the errors of its fetches)
SiteInfo(u) == [domain |-> NewURL(u).hostname, protocol |-> NewURL(u).protocol]

\* the `result` object of part_004 lines 299-312 (background.ts 278-291);
\* `scan` stands for its lastScanned time
EventResult(i, u, riskScore) ==
  [scan |-> i, url |-> u, riskScore |-> riskScore, siteInfo |-> Undefined]

\* the `errorResult` of the catch block, part_004 lines 376-390
EventErrorResult(i, u) ==
  [scan |-> i, url |-> u, riskScore |-> Num(0), siteInfo |-> Undefined]

\* an event handled by a listener or by the CHECK_URL handler: its
\* arguments, where its handler stands, the result object checkUrl built for
\* it (Null before) and the state of that object's site-info lookup
NewScan(origin, u, t, at) ==
  [origin |-> origin, url |-> u, tab |-> t, pc |-> at, result |-> Null,
   siteInfo |-> "none"]

\* the handler has ended and so has the site-info lookup of its result
Ended(s) == s.pc \in {"done", "ignored"} /\ s.siteInfo # "pending"

\* nothing is left of an event whose handler and lookup have ended
Gone == NewScan("none", "", 0, "done")

\* the handler of event i goes on as s
Becomes(i, s) == scans' = [scans EXCEPT ![i] = IF Ended(s) THEN Gone ELSE s]

\* checkUrl starts: part_004 awaits wasWarningShown (line 250); in
\* background.ts the pipeline follows the chrome:// test at once
StartOfCheckUrl(b) == IF b = "part_004" THEN "wasWarned" ELSE "pipeline"

\* a handler is inside its call of checkUrl
InCheckUrl(s) == s.pc \in {"wasWarned", "pipeline", "scripts"}

\* a listener of part_004 is between its add and its delete
HoldsUrl(s) ==
  /\ build = "part_004"
  /\ s.origin \in Listeners
  /\ (InCheckUrl(s) \/ s.pc = "store")

\* a `finally` that leaves the set as it is
AfterFinallyKeepsUrl(s) == urlsBeingChecked

\* urlsBeingChecked after the `finally` of a listener (lines 447-449, 476-478,
\* 503-505); the CHECK_URL handler and background.ts have no such set
AfterFinally(s) ==
  IF build = "part_004" /\ s.origin \in Listeners
  THEN urlsBeingChecked \ {s.url} ELSE urlsBeingChecked

\* `await checkUrl(...)` resumes in the caller with r, the record s being the
\* handler's state then: a result is stored as latestScanResult (part_004
\* lines 444-446, 468-470, 495-497, 619-621; background.ts 342-343, 366-367,
\* 498-499), null ends the handler
CheckUrlReturns(i, s, r) ==
  IF r = Null
  THEN /\ Becomes(i, [s EXCEPT !.pc = "done"])
       /\ urlsBeingChecked' = AfterFinally(s)
       /\ UNCHANGED <<latestScanResult, completed>>
  ELSE /\ Becomes(i, [s EXCEPT !.pc = "store"])
       /\ latestScanResult' = r
       /\ completed' = i
       /\ UNCHANGED urlsBeingChecked

\* the pages of the tabs when tab t is seen at URL u: the warning page of
\* another URL went away with the document it was injected into
TabAt(u, t) ==
  [overlay EXCEPT ![t] = IF @ = Defined(u) THEN @ ELSE Undefined]

\* webNavigation.onBeforeNavigate for the main frame (part_004 lines 434-441):
\* tab t leaves its document for URL u; src/src/background.ts registers no
\* such listener
OnBeforeNavigate(u, t) ==
  /\ build = "part_004"
  /\ ~isForbiddenUrl(u)
  /\ IF u \in urlsBeingChecked
     THEN /\ scans' = Append(scans, Gone)
          /\ UNCHANGED urlsBeingChecked
     ELSE /\ scans' = Append(scans, NewScan("onBeforeNavigate", u, t, "wasWarned"))
          /\ urlsBeingChecked' = urlsBeingChecked \cup {u}
  /\ overlay' = [overlay EXCEPT ![t] = Undefined]
  /\ UNCHANGED <<autoScan, latestScanResult, warnedUrls, pendingDecisions, completed,
                 continued>>
  /\ UNCHANGED nonEventVars

\* tabs.onUpdated with status complete (part_004 lines 452-459, background.ts
\* 330-334), up to its await of storage.sync.get
OnUpdated(u, t) ==
  /\ build = "part_004" => ~isForbiddenUrl(u)
  /\ scans' = Append(scans, NewScan("onUpdated", u, t, "readAutoScan"))
  /\ overlay' = TabAt(u, t)
  /\ UNCHANGED <<autoScan, latestScanResult, warnedUrls, pendingDecisions,
                 urlsBeingChecked, completed, continued>>
  /\ UNCHANGED nonEventVars

\* tabs.onActivated (part_004 lines 482-483, background.ts 354-356), up to its
\* await of storage.sync.get
OnActivated(u, t) ==
  /\ scans' = Append(scans, NewScan("onActivated", u, t, "readAutoScan"))
  /\ overlay' = TabAt(u, t)
  /\ UNCHANGED <<autoScan, latestScanResult, warnedUrls, pendingDecisions,
                 urlsBeingChecked, completed, continued>>
  /\ UNCHANGED nonEventVars

\* storage.sync.get('autoScan') settles in a tab listener: it returns when the
\* setting is off and, in part_004, when the URL is being checked (lines
\* 460-464, 484-491); otherwise it calls checkUrl
AutoScanRead(i) ==
  /\ scans[i].pc = "readAutoScan"
  /\ IF ~autoScan
        \/ (build = "part_004"
              /\ (isForbiddenUrl(scans[i].url) \/ scans[i].url \in urlsBeingChecked))
     THEN /\ Becomes(i, [scans[i] EXCEPT !.pc = "ignored"])
          /\ UNCHANGED urlsBeingChecked
     ELSE /\ Becomes(i, [scans[i] EXCEPT !.pc = StartOfCheckUrl(build)])
          /\ urlsBeingChecked' = IF build = "part_004"
                                 THEN urlsBeingChecked \cup {scans[i].url}
                                 ELSE urlsBeingChecked
  /\ UNCHANGED <<autoScan, latestScanResult, warnedUrls, pendingDecisions, overlay,
                 completed, continued>>
  /\ UNCHANGED nonEventVars

\* the CHECK_URL message of the popup (part_004 lines 616-617, background.ts
\* 494-495): checkUrl(message.url, sender.tab?.id || 0)
CheckUrlRequest(u) ==
  /\ scans' = Append(scans, NewScan("CHECK_URL", u, 0, StartOfCheckUrl(build)))
  /\ UNCHANGED <<autoScan, latestScanResult, warnedUrls, pendingDecisions,
                 urlsBeingChecked, overlay, completed, continued>>
  /\ UNCHANGED nonEventVars

\* part_004 lines 250-257: wasWarningShown settles; a warned URL is not
\* scanned and checkUrl returns null
WasWarningShownSettles(i) ==
  /\ scans[i].pc = "wasWarned"
  /\ IF SkipsUrl(build, scans[i].url, scans[i].url \in warnedUrls)
     THEN CheckUrlReturns(i, scans[i], Null)
     ELSE /\ Becomes(i, [scans[i] EXCEPT !.pc = "pipeline"])
          /\ UNCHANGED <<urlsBeingChecked, latestScanResult, completed>>
  /\ UNCHANGED <<autoScan, warnedUrls, pendingDecisions, overlay, continued>>
  /\ UNCHANGED nonEventVars

\* pendingDecisions.set(url, { resolve, tabId }) of line 332
SetDecision(u, t) == [pendingDecisions EXCEPT ![u] = Defined(t)]

\* the pipeline settles. An error goes to the catch block, which returns the
\* error result. Otherwise the result is built and sent to the popup and
\* getSiteInfo is started (lines 299-322); when the interstitial is due,
\* warnedUrls is reset, the URL is marked as warned, its decision is
\* registered and the scripts are injected (lines 325-335), else the result
\* is returned
PipelineSettles(i) ==
  /\ scans[i].pc = "pipeline"
  /\ \/ /\ CheckUrlReturns(i, scans[i], EventErrorResult(i, scans[i].url))
        /\ UNCHANGED <<warnedUrls, pendingDecisions>>
     \/ \E riskScore \in EventScores :
          LET r == EventResult(i, scans[i].url, riskScore)
              s == [scans[i] EXCEPT !.result = r, !.siteInfo = "pending"]
          IN IF WarningDue(build, riskScore, s.tab)
             THEN /\ warnedUrls' = {s.url}
                  /\ pendingDecisions' = SetDecision(s.url, s.tab)
                  /\ Becomes(i, [s EXCEPT !.pc = "scripts"])
                  /\ UNCHANGED <<urlsBeingChecked, latestScanResult, completed>>
             ELSE /\ CheckUrlReturns(i, s, r)
                  /\ UNCHANGED <<warnedUrls, pendingDecisions>>
  /\ UNCHANGED <<autoScan, overlay, continued>>
  /\ UNCHANGED nonEventVars

\* part_004 lines 334-375: the two executeScript calls settle; the warning
\* page covers the tab and checkUrl returns the result, or a rejection goes
\* to the catch block
ScriptsSettle(i) ==
  /\ scans[i].pc = "scripts"
  /\ \/ /\ overlay' = [overlay EXCEPT ![scans[i].tab] = Defined(scans[i].url)]
        /\ CheckUrlReturns(i, scans[i], scans[i].result)
     \/ /\ CheckUrlReturns(i, scans[i], EventErrorResult(i, scans[i].url))
        /\ UNCHANGED overlay
  /\ UNCHANGED <<autoScan, warnedUrls, pendingDecisions, continued>>
  /\ UNCHANGED nonEventVars

\* `await chrome.storage.sync.set(...)` settles in the caller of checkUrl,
\* by resolving or by rejecting: the handler ends, a listener of part_004
\* through its `finally`
StoreSettles(i) ==
  /\ scans[i].pc = "store"
  /\ Becomes(i, [scans[i] EXCEPT !.pc = "done"])
  /\ urlsBeingChecked' = AfterFinally(scans[i])
  /\ UNCHANGED <<autoScan, latestScanResult, warnedUrls, pendingDecisions, overlay,
                 completed, continued>>
  /\ UNCHANGED nonEventVars

\* getSiteInfo(url) resolves (part_004 lines 316-322, background.ts
\* 297-306): the callback assigns result.data.siteInfo, sends the result to
\* the popup and stores it as latestScanResult
SiteInfoSettles(i) ==
  /\ scans[i].siteInfo = "pending"
  /\ LET r == [scans[i].result EXCEPT !.siteInfo = Defined(SiteInfo(scans[i].url))]
     IN /\ Becomes(i, [scans[i] EXCEPT !.result = r, !.siteInfo = "stored"])
        /\ latestScanResult' = r
  /\ UNCHANGED <<autoScan, warnedUrls, pendingDecisions, urlsBeingChecked, overlay,
                 completed, continued>>
  /\ UNCHANGED nonEventVars

\* the user answers the warning page that covers tab t: the page sends
\* WARNING_DECISION with its own URL (part_000 lines 55-86), and the handler
\* (part_004 lines 396-432) acts on the entry of that URL: the overlay of the
\* entry's tab is removed, "Continue Anyway" marks the URL as warned, "Go
\* Back" navigates the entry's tab back, and the entry is deleted. With no
\* entry for the URL the handler does nothing
WarningDecision(t, allow) ==
  /\ overlay[t] # Undefined
  /\ LET u == overlay[t][1]
         decision == pendingDecisions[u]
     IN /\ decision # Undefined
        /\ overlay' = [overlay EXCEPT ![decision[1]] = Undefined]
        /\ warnedUrls' = IF allow THEN warnedUrls \cup {u} ELSE warnedUrls
        /\ continued' = IF allow THEN continued \cup {u} ELSE continued
        /\ pendingDecisions' = [pendingDecisions EXCEPT ![u] = Undefined]
  /\ UNCHANGED <<autoScan, latestScanResult, urlsBeingChecked, scans, completed>>
  /\ UNCHANGED nonEventVars

\* the UPDATE_AUTO_SCAN message of the popup (part_004 lines 593-595,
\* background.ts 466-468)
UpdateAutoScan(value) ==
  /\ value # autoScan
  /\ autoScan' = value
  /\ UNCHANGED <<latestScanResult, warnedUrls, pendingDecisions, urlsBeingChecked,
                 overlay, scans, completed, continued>>
  /\ UNCHANGED nonEventVars

\* the state after onInstalled (part_004 lines 44-49, background.ts 33-40)
InitEvents ==
  /\ build \in Builds
  /\ scanUrl = ""
  /\ tabId = 0
  /\ scanPc = "idle"
  /\ mlScore = NaN
  /\ isUnsafe = FALSE
  /\ result = NotCalled
  /\ caughtError = ""
  /\ warning = "none"
  /\ popup = "none"
  /\ popupScore = Num(0)
  /\ riskLevel = ""
  /\ IdleEvents
  /\ IdleFeatures
  /\ IdleLoad
  /\ IdleScale
  /\ IdleHistory

\* a handler that waits is resumed
Resumes ==
  \/ \E i \in DOMAIN scans : AutoScanRead(i)
  \/ \E i \in DOMAIN scans : WasWarningShownSettles(i)
  \/ \E i \in DOMAIN scans : PipelineSettles(i)
  \/ \E i \in DOMAIN scans : ScriptsSettle(i)
  \/ \E i \in DOMAIN scans : StoreSettles(i)
  \/ \E i \in DOMAIN scans : SiteInfoSettles(i)

\* the user acts on a warning page or on the popup's switch
UserActs ==
  \/ \E t \in EventTabs, allow \in BOOLEAN : WarningDecision(t, allow)
  \/ \E value \in BOOLEAN : UpdateAutoScan(value)

\* an event can arrive at any time, until MaxEvents have
MayArrive == Len(scans) < MaxEvents

NextEvents ==
  \/ \E u \in EventUrls, t \in EventTabs : MayArrive /\ OnBeforeNavigate(u, t)
  \/ \E u \in EventUrls, t \in EventTabs : MayArrive /\ OnUpdated(u, t)
  \/ \E u \in EventUrls, t \in EventTabs : MayArrive /\ OnActivated(u, t)
  \/ \E u \in EventUrls : MayArrive /\ CheckUrlRequest(u)
  \/ Resumes
  \/ UserActs

SpecEvents == InitEvents /\ [][NextEvents]_vars

\* SpecOneByOne: the same handlers with the events of a user who waits: an
\* event arrives when the handlers of the events before it have ended and
\* their site-info lookups have settled
MaxScans == 3

Quiescent == \A i \in DOMAIN scans : Ended(scans[i])

\* an event arrives when nothing is in flight, until MaxScans have
MayFollow == Quiescent /\ Len(scans) < MaxScans

NextOneByOne ==
  \/ \E u \in EventUrls, t \in EventTabs : MayFollow /\ OnBeforeNavigate(u, t)
  \/ \E u \in EventUrls, t \in EventTabs : MayFollow /\ OnUpdated(u, t)
  \/ \E u \in EventUrls, t \in EventTabs : MayFollow /\ OnActivated(u, t)
  \/ \E u \in EventUrls : MayFollow /\ CheckUrlRequest(u)
  \/ Resumes
  \/ UserActs

SpecOneByOne == InitEvents /\ [][NextOneByOne]_vars

-----------------------------------------------------------------------------
(* Claims about the listeners and the handlers (SpecEvents, SpecOneByOne) *)

\* C22: a scan result is never mutated after it has been constructed: once
\* checkUrl has built and sent a result, no field of that object changes.
C22_ResultNeverMutated ==
  [][\A i \in DOMAIN scans :
       (scans[i].result # Null /\ scans'[i].result # Null) =>
         scans'[i].result = scans[i].result]_vars

\* the listener scans of URL u that are inside checkUrl
ListenerScansOf(u) ==
  {i \in DOMAIN scans :
     scans[i].origin \in Listeners /\ InCheckUrl(scans[i]) /\ scans[i].url = u}

\* C26: among the scans started by the listeners of part_004, at most one
\* checkUrl is in flight for a URL at any time, and urlsBeingChecked holds
\* exactly the URLs of the listener scans in flight: a URL leaves it when its
\* scan ends, with a result, with null or with an error, and the set is empty
\* whenever no listener scan is in flight.
C26_OneListenerScanPerUrl ==
  build = "part_004" =>
    /\ \A u \in EventUrls : Cardinality(ListenerScansOf(u)) <= 1
    /\ urlsBeingChecked = {scans[i].url : i \in {j \in DOMAIN scans : HoldsUrl(scans[j])}}

\* a second listener event for a URL that is being checked was dropped
C26_Witness ==
  /\ build = "part_004"
  /\ Len(scans) = 2
  /\ scans[1].origin = "onUpdated"
  /\ scans[1].pc = "pipeline"
  /\ scans[2] = Gone
  /\ completed = 0
  /\ urlsBeingChecked = {scans[1].url}

\* two listener scans of different URLs are in flight, then both have ended
C26_TwoInFlightWitness ==
  /\ build = "part_004"
  /\ Cardinality(urlsBeingChecked) = 2
  /\ \A i \in DOMAIN scans : scans[i].origin \in Listeners /\ InCheckUrl(scans[i])

C26_AllEndedWitness ==
  /\ build = "part_004"
  /\ Len(scans) = 2
  /\ Quiescent
  /\ completed = 2
  /\ urlsBeingChecked = {}

\* C27: once the work of all scans has finished, site-info lookups included,
\* the stored latestScanResult is the result of the scan that completed most
\* recently.
C27_LatestIsMostRecent ==
  (Quiescent /\ completed # 0) =>
    /\ latestScanResult # Null
    /\ latestScanResult.scan = completed

\* a warning page is put on a tab by the scan of event i in this step
ShowsWarning(i) ==
  /\ scans[i].pc = "scripts"
  /\ scans'[i].pc # "scripts"
  /\ latestScanResult' = scans[i].result

\* C28: after the user has chosen "Continue Anyway" for a URL, no later scan
\* shows the warning page for that URL again, whatever other URLs are scanned
\* in between.
C28_NoWarningAfterContinue ==
  [][\A i \in DOMAIN scans :
       ShowsWarning(i) => scans[i].url \notin continued]_vars

\* C29: every warning page that is displayed has a pending-decision entry
\* bound to the tab that displays it, so that the answer acts on that tab.
C29_DecisionBoundToDisplayingTab ==
  \A t \in EventTabs :
    overlay[t] # Undefined => pendingDecisions[overlay[t][1]] = Defined(t)

\* the handler of listener event i calls checkUrl in this step
ListenerStartsScan(i) ==
  /\ scans'[i].origin \in Listeners
  /\ InCheckUrl(scans'[i])
  /\ i \in DOMAIN scans => ~InCheckUrl(scans[i])

\* C30: while the stored autoScan setting is false, no navigation or tab
\* event starts a scan or changes latestScanResult; only a CHECK_URL request
\* does.
C30_NoListenerScanWhileOff ==
  [][~autoScan =>
       /\ \A i \in DOMAIN scans' : ~ListenerStartsScan(i)
       /\ latestScanResult' # latestScanResult =>
            scans[latestScanResult'.scan].origin = "CHECK_URL"]_vars

\* the tab listeners do read the setting: while it is off, only
\* onBeforeNavigate starts a scan
C30_TabListenersObeyTheSetting ==
  [][~autoScan =>
       \A i \in DOMAIN scans' :
         ListenerStartsScan(i) => scans'[i].origin = "onBeforeNavigate"]_vars

====
